---- MODULE Spec2Model ----
(***************************************************************************)
(* The URL shortener's three Lambda handlers (create_short_url,            *)
(* redirect_url, get_analytics) over one shared DynamoDB table.            *)
(*                                                                         *)
(* A run holds up to MaxInvocations invocations, any number of them at a    *)
(* time, each in an execution environment of its own.  A handler's local   *)
(* computation is atomic with the call to the table (get_item, put_item,   *)
(* update_item) that follows it; every such call is a step of its own, so  *)
(* invocations interleave exactly at the store operations.                 *)
(***************************************************************************)
EXTENDS Naturals, Sequences, FiniteSets, TLC

(* ------------------------------ bounds -------------------------------- *)
\* invocations in a run
MaxInvocations == 3
\* distinct codes the random generator yields in the explored runs
MaxCodes == 2
\* readings of datetime.utcnow() are 0..MaxClock
MaxClock == 1

(* ------------------------- program constants -------------------------- *)
SHORT_CODE_LENGTH == 6
MAX_RETRIES == 5
ALLOWED_PROTOCOLS == {"http", "https"}

\* The invocations of a run, numbered in the order they begin.
Procs == 1..MaxInvocations

\* string.ascii_letters + string.digits
chars ==
  << "a","b","c","d","e","f","g","h","i","j","k","l","m",
     "n","o","p","q","r","s","t","u","v","w","x","y","z",
     "A","B","C","D","E","F","G","H","I","J","K","L","M",
     "N","O","P","Q","R","S","T","U","V","W","X","Y","Z",
     "0","1","2","3","4","5","6","7","8","9" >>

Range(f) == {f[i] : i \in DOMAIN f}

\* The i-th code of the generator's range: the base-62 numeral of i over
\* chars, least significant character first, `length` characters long.
RECURSIVE Pow(_, _)
Pow(b, e) == IF e = 0 THEN 1 ELSE b * Pow(b, e - 1)

NthCode(i, length) ==
  [k \in 1..length |-> chars[((i \div Pow(Len(chars), k - 1)) % Len(chars)) + 1]]

\* generate_short_code: every outcome random.choice can produce, cut down
\* to the first MaxCodes codes of the range.
generate_short_code(length) == {NthCode(i, length) : i \in 1..MaxCodes}

\* str.isalnum on ASCII text: non-empty and every character alphanumeric.
isalnum(s) == Len(s) > 0 /\ \A i \in 1..Len(s) : s[i] \in Range(chars)

(* ------------------------------- URLs --------------------------------- *)
\* A JSON value found under "url": a string, another JSON type, or nothing.
Str(v) == [t |-> "str", v |-> v]
JsonInt == [t |-> "int", v |-> "42"]
JsonNone == [t |-> "none", v |-> ""]

ValidUrls == {"https://a.example/x", "http://b.example"}
InvalidUrls == {"a.example/x", "ftp://a.example", "https:///x", "http://[a"}

\* urllib.parse.urlparse on the URLs above: scheme, netloc, or ValueError.
urlparse(u) ==
  CASE u = "https://a.example/x" -> [raises |-> FALSE, scheme |-> "https", netloc |-> "a.example"]
    [] u = "http://b.example"    -> [raises |-> FALSE, scheme |-> "http",  netloc |-> "b.example"]
    [] u = "a.example/x"         -> [raises |-> FALSE, scheme |-> "",      netloc |-> ""]
    [] u = "ftp://a.example"     -> [raises |-> FALSE, scheme |-> "ftp",   netloc |-> "a.example"]
    [] u = "https:///x"          -> [raises |-> FALSE, scheme |-> "https", netloc |-> ""]
    [] u = "http://[a"           -> [raises |-> TRUE,  scheme |-> "",      netloc |-> ""]

\* validate_url: <<is_valid, error_msg>>
validate_url(url) ==
  IF url.t # "str" \/ url.v = ""
    THEN <<FALSE, "URL is required and must be a string">>
    ELSE LET parsed == urlparse(url.v) IN
      IF parsed.raises THEN <<FALSE, "Invalid URL format">>
      ELSE IF parsed.scheme = "" THEN <<FALSE, "URL must include protocol (http:// or https://)">>
      ELSE IF parsed.scheme \notin ALLOWED_PROTOCOLS THEN <<FALSE, "Only http, https protocols are allowed">>
      ELSE IF parsed.netloc = "" THEN <<FALSE, "URL must include a valid domain">>
      ELSE <<TRUE, "">>

(* ------------------------------ the table ------------------------------ *)
\* The table is a function from the short codes that have an item to the item.
EmptyTable == [c \in {} |-> 0]

\* table.get_item(Key=...): the response holds 'Item' when the key exists;
\* <<item>> for a response with an Item, << >> for one without.
get_item(st, key) == IF key \in DOMAIN st THEN <<st[key]>> ELSE << >>

\* table.put_item(Item=item): unconditional, replaces any item under the key.
put_item(st, item) ==
  [k \in DOMAIN st \cup {item.short_code} |->
     IF k = item.short_code THEN item ELSE st[k]]

\* The item create_short_url_record builds.
NewItem(short_code, long_url, now, ip_address) ==
  [short_code |-> short_code,
   long_url |-> long_url,
   created_at |-> now,
   click_count |-> 0,
   is_active |-> TRUE,
   created_by_ip |-> ip_address]

\* A variant without the ConditionExpression, to compare.
ConditionHolds_Always(st, key) == TRUE
\* ConditionExpression='attribute_exists(short_code)'
ConditionHolds(st, key) == key \in DOMAIN st

\* A variant that overwrites the counter, 'SET click_count = :inc', to compare.
update_item_SET(st, key) == [st EXCEPT ![key].click_count = 1]
\* table.update_item(... 'ADD click_count :inc' ...) once its condition has
\* held.  ADD on a key the table does not hold makes an item of the key and
\* the counter alone.
update_item(st, key) ==
  IF key \in DOMAIN st
    THEN [st EXCEPT ![key].click_count = @ + 1]
    ELSE [k \in DOMAIN st \cup {key} |->
            IF k = key THEN [short_code |-> key, click_count |-> 1] ELSE st[k]]

(* ------------------------------ responses ------------------------------ *)
NoUrl == [domain |-> "", code |-> << >>]

Resp(status, err) ==
  [statusCode |-> status, error |-> err, Location |-> "", CacheControl |-> "",
   short_url |-> NoUrl, short_code |-> << >>, original_url |-> "",
   created_at |-> 0, click_count |-> 0, is_active |-> TRUE]

NoResp == Resp(0, "")

\* The response of the except clauses that end a handler: a store call that
\* raised is answered 500, with the message of the URLShortenerError or with
\* 'Internal server error'.
ServerError(msg) == Resp(500, msg)

(* ------------------------------- events -------------------------------- *)
Codes == generate_short_code(SHORT_CODE_LENGTH)

\* An API Gateway event for POST /shorten.  body: the 'body' key is absent,
\* null, text that is no JSON, JSON that is no object, or a JSON object whose
\* "url" is `url`.  sourceIp and domainName are << >> when the key is missing.
CreateEvent(body, url, ip, dom) ==
  [body |-> body, url |-> url, sourceIp |-> ip, domainName |-> dom]

CreateEvents ==
  {CreateEvent("object", Str(u), <<"198.51.100.7">>, <<"api.example">>) : u \in ValidUrls}
  \cup {CreateEvent("object", Str("https://a.example/x"), <<"198.51.100.7">>, << >>)}
  \cup {CreateEvent(b, JsonNone, <<"198.51.100.7">>, <<"api.example">>) :
          b \in {"absent", "null", "invalid_json", "non_object", "object"}}
  \cup {CreateEvent("object", v, <<"198.51.100.7">>, <<"api.example">>) :
          v \in {JsonInt, Str("")} \cup {Str(u) : u \in InvalidUrls}}

\* An API Gateway event for GET /{shortCode}.  pathParameters and headers
\* are "absent", "null" or "object"; shortCode is << >> when missing or empty.
PathEvent(pp, code, headers) ==
  [pathParameters |-> pp, shortCode |-> code, headers |-> headers]

BadCode == <<"a","b","c","-","1","2","3","!">>

PathEvents ==
  {PathEvent("object", c, "object") : c \in Codes \cup {BadCode, << >>}}
  \cup {PathEvent("absent", << >>, "object"), PathEvent("null", << >>, "object")}
  \cup {PathEvent("object", c, h) : c \in Codes, h \in {"absent", "null"}}

\* What the input checks of a handler read of its event.
CreateRequest(event) == [body |-> event.body, url |-> event.url]
PathRequest(event) == [pathParameters |-> event.pathParameters, shortCode |-> event.shortCode]

\* Outcomes of one call to the table, besides its own result: a botocore
\* ClientError, or an exception that is no ClientError.
StoreOutcomes == {"ok", "ClientError", "OtherError"}

\* datetime.utcnow(): each execution environment reads its own host's
\* clock, so readings of different invocations are in no order; within one
\* invocation a later reading is no smaller.
Now == 0..MaxClock

(* -------------------------------- state -------------------------------- *)
VARIABLES
  store,    \* the DynamoDB table
  inv,      \* inv[p]: invocation p, with its locals while it runs
  last,     \* the invocation that has just returned, with its response, until
            \* the response has gone out; Idle otherwise
  answered, \* history: answered[c], the URLs of the 201 answers that carried c
  okIncs,   \* history: okIncs[c], increments of c that succeeded since c's put
  writes    \* history: the put_item calls of Create that succeeded so far

vars == <<store, inv, last, answered, okIncs, writes>>

\* An invocation that has not begun.  Of one that runs, the record holds the locals of the
\* handler (long_url, domain, client_ip, short_code, attempt, item; of
\* candidate the one the loop accepted, a rejected one being overwritten
\* unread), its response, and a record of what it did: checks (the results
\* of its existence checks, in order), n_get / n_put / n_upd (its calls of
\* get_item / put_item / update_item), wrote (put_item returned) and
\* written_at (the created_at it stored),
\* inc and emit (how increment_click_count and log_redirect_analytics
\* ended), seen (the URLs answered for its short_code before it began),
\* request (what of its event the handler's input checks read), failed
\* (a get_item or put_item of its raised) and writes_seen (the value of
\* writes at the existence check that found its short_code free).
Idle ==
  [kind |-> "idle", pc |-> "idle", request |-> << >>, failed |-> FALSE,
   long_url |-> "", client_ip |-> << >>, domain |-> << >>,
   short_code |-> << >>, candidate |-> << >>, attempt |-> 0, checks |-> << >>,
   item |-> << >>, inc |-> "none", emit |-> "none",
   n_get |-> 0, n_put |-> 0, n_upd |-> 0,
   wrote |-> FALSE, written_at |-> 0, writes_seen |-> 0,
   seen |-> {}, resp |-> NoResp]

Init ==
  /\ store = EmptyTable
  /\ inv = [p \in Procs |-> Idle]
  /\ last = Idle
  /\ answered = [c \in Codes |-> << >>]
  /\ okIncs = [c \in Codes |-> 0]
  /\ writes = 0

\* The invocation r ends with response resp.
End(r, resp) == [r EXCEPT !.pc = "done", !.resp = resp]

\* An invocation that has returned.
Gone == [Idle EXCEPT !.kind = "gone", !.pc = "done"]

\* Invocation p has not begun, and is the next to begin.  A returned
\* response goes out before the next step of any handler.
Arrives(p) ==
  /\ last = Idle
  /\ inv[p].kind = "idle"
  /\ p > 1 => inv[p - 1].kind # "idle"

\* Invocation p, of handler kind, is about to take its step pc.
At(p, kind, pc) ==
  /\ last = Idle
  /\ inv[p].kind = kind /\ inv[p].pc = pc

\* Invocation p has become r: it goes on, or it has returned.
Step(p, r) ==
  IF r.pc = "done"
    THEN inv' = [inv EXCEPT ![p] = Gone] /\ last' = r
    ELSE inv' = [inv EXCEPT ![p] = r] /\ last' = Idle

(* -------------------------- create_short_url --------------------------- *)
\* lambda_handler lines 96-115: the response that ends the invocation before
\* any store access, or NoResp when the URL is valid.
CreateEarlyResponse(event) ==
  IF event.body = "invalid_json" THEN Resp(400, "Invalid JSON in request body")
  ELSE IF event.body \in {"null", "non_object"} THEN Resp(500, "Internal server error")
  ELSE LET long_url == IF event.body = "absent" THEN JsonNone ELSE event.url
           v == validate_url(long_url) IN
       IF ~v[1] THEN Resp(400, v[2]) ELSE NoResp

\* A variant that finds every code free, to compare.
check_short_code_exists_Never(st, short_code) == FALSE
\* check_short_code_exists: 'Item' in response
check_short_code_exists(st, short_code) == Len(get_item(st, short_code)) > 0

\* A variant with one round fewer, to compare.
LoopOver_OneLess(attempt) == attempt >= MAX_RETRIES - 1
\* for attempt in range(MAX_RETRIES): the loop is over after `attempt` rounds
LoopOver(attempt) == attempt >= MAX_RETRIES

\* After the loop, lines 125-130: is there a short code to write?
HasShortCode(short_code) == short_code # << >>

\* A variant that keeps the first candidate tried, to compare.
Accept_FirstTried(short_code, candidate, exists) ==
  IF short_code = << >> THEN candidate ELSE short_code
\* Lines 121-123: the short code after a round whose candidate exists or not.
Accept(short_code, candidate, exists) ==
  IF exists THEN short_code ELSE candidate

\* One round of the loop of lines 119-123 by invocation r, the table being
\* st, and lines 125-130 once the loop is over.
CheckRound(r, st, candidate, outcome) ==
  LET called == [r EXCEPT !.n_get = @ + 1]
      raised == [called EXCEPT !.failed = TRUE] IN
  CASE outcome = "ClientError" ->
         End(raised, ServerError("Database error while checking short code"))
    [] outcome = "OtherError" ->
         End(raised, ServerError("Internal server error"))
    [] outcome = "ok" ->
         LET exists == check_short_code_exists(st, candidate)
             round == [called EXCEPT !.attempt = @ + 1,
                                     !.checks = Append(@, exists),
                                     !.candidate = IF exists THEN @ ELSE candidate,
                                     !.writes_seen = IF exists THEN @ ELSE writes,
                                     !.short_code = Accept(@, candidate, exists)] IN
         IF ~exists \/ LoopOver(round.attempt)
           THEN IF HasShortCode(round.short_code)
                  THEN [round EXCEPT !.pc = "put"]
                  ELSE End(round, Resp(500, "Failed to generate unique short code"))
           ELSE [round EXCEPT !.pc = "check"]

\* A request arrives at create_short_url.lambda_handler: lines 92-115, and
\* the first round of the loop.
CreateInvoke(p) ==
  /\ Arrives(p)
  /\ \E event \in CreateEvents :
       LET early == CreateEarlyResponse(event)
           begun == [Idle EXCEPT !.kind = "create", !.request = CreateRequest(event)] IN
       IF early # NoResp
         THEN Step(p, End(begun, early))
         ELSE \E candidate \in generate_short_code(SHORT_CODE_LENGTH),
                 outcome \in StoreOutcomes :
                Step(p, CheckRound([begun EXCEPT !.long_url = event.url.v,
                                                 !.client_ip = event.sourceIp,
                                                 !.domain = event.domainName],
                                   store, candidate, outcome))
  /\ UNCHANGED <<store, answered, okIncs, writes>>

\* A later round of the loop.
CreateCheck(p) ==
  /\ At(p, "create", "check")
  /\ \E candidate \in generate_short_code(SHORT_CODE_LENGTH), outcome \in StoreOutcomes :
       Step(p, CheckRound(inv[p], store, candidate, outcome))
  /\ UNCHANGED <<store, answered, okIncs, writes>>

\* The 201 response of lines 138-155.
Created(short_code, long_url, domain, now) ==
  [Resp(201, "") EXCEPT !.short_url = [domain |-> domain, code |-> short_code],
                        !.short_code = short_code,
                        !.original_url = long_url,
                        !.created_at = now]

\* A variant that reuses the item's stamp, to compare.
ResponseTime_OfItem(t1, t2) == t1
\* The created_at of the response, the item having been stamped t1 and the
\* clock reading t2 at line 146.
ResponseTime(t1, t2) == t2

\* answered, one more 201 having carried short_code.
Answer(short_code, long_url) ==
  [answered EXCEPT ![short_code] = Append(@, long_url)]

\* Lines 132-155: create_short_url_record, then the response.  The clock
\* is read for the item (t1) and again for the response (t2).
CreatePut(p) ==
  /\ At(p, "create", "put")
  /\ \E outcome \in StoreOutcomes, t1 \in Now :
       LET c == inv[p].short_code
           called == [inv[p] EXCEPT !.n_put = @ + 1]
           raised == [called EXCEPT !.failed = TRUE] IN
       CASE outcome = "ClientError" ->
              /\ Step(p, End(raised, ServerError("Failed to create short URL")))
              /\ UNCHANGED <<store, answered, okIncs, writes>>
         [] outcome = "OtherError" ->
              /\ Step(p, End(raised, ServerError("Internal server error")))
              /\ UNCHANGED <<store, answered, okIncs, writes>>
         [] outcome = "ok" ->
              LET wrote == [called EXCEPT !.wrote = TRUE, !.written_at = t1] IN
              /\ store' = put_item(store, NewItem(c, inv[p].long_url, t1, inv[p].client_ip))
              /\ okIncs' = [okIncs EXCEPT ![c] = 0]
              /\ writes' = writes + 1
              /\ IF inv[p].domain = << >>
                   THEN \* get_api_domain raises KeyError
                     /\ Step(p, End(wrote, Resp(500, "Internal server error")))
                     /\ UNCHANGED answered
                   ELSE \E t2 \in {t \in Now : t >= t1} :
                     /\ Step(p, End(wrote, Created(c, inv[p].long_url, inv[p].domain[1],
                                                   ResponseTime(t1, t2))))
                     /\ answered' = Answer(c, inv[p].long_url)

(* ----------------------------- redirect_url ---------------------------- *)
\* Lines 59-80 of redirect_url.lambda_handler: the response that ends the
\* invocation before any store access, or NoResp.
RedirectEarlyResponse(event) ==
  IF event.pathParameters = "null" THEN Resp(500, "Internal server error")
  ELSE IF event.pathParameters = "absent" \/ event.shortCode = << >>
    THEN Resp(400, "Short code is required")
  ELSE IF ~isalnum(event.shortCode) THEN Resp(400, "Invalid short code format")
  ELSE IF event.headers = "null" THEN Resp(500, "Internal server error")
  ELSE NoResp

\* A variant that never looks at is_active, to compare.
LookupResponse_ActiveUnchecked(item) ==
  IF item = << >> THEN Resp(404, "Short URL not found") ELSE NoResp
\* Lines 94-109: the response for the item that was read, or NoResp when
\* the item is there and active.
LookupResponse(item) ==
  IF item = << >> THEN Resp(404, "Short URL not found")
  ELSE IF ~item[1].is_active THEN Resp(410, "Short URL is no longer active")
  ELSE NoResp

\* A request arrives at redirect_url.lambda_handler: lines 55-111, up to
\* and with the lookup.
RedirectInvoke(p) ==
  /\ Arrives(p)
  /\ \E event \in PathEvents :
       LET early == RedirectEarlyResponse(event)
           begun == [Idle EXCEPT !.kind = "redirect", !.request = PathRequest(event)] IN
       IF early # NoResp
         THEN Step(p, End(begun, early))
         ELSE \E outcome \in StoreOutcomes :
           LET called == [begun EXCEPT !.short_code = event.shortCode,
                                       !.seen = Range(answered[event.shortCode]),
                                       !.n_get = @ + 1] IN
           IF outcome # "ok"
             THEN Step(p, End([called EXCEPT !.failed = TRUE],
                              ServerError("Internal server error")))
             ELSE LET item == get_item(store, event.shortCode)
                      got == [called EXCEPT !.item = item]
                      answer == LookupResponse(item) IN
               IF answer # NoResp
                 THEN Step(p, End(got, answer))
                 ELSE Step(p, [got EXCEPT !.pc = "increment", !.long_url = item[1].long_url])
  /\ UNCHANGED <<store, answered, okIncs, writes>>

\* A variant without the try of lines 113-118, to compare.
IncrementCaught_ClientErrorOnly(outcome) == outcome # "OtherError"
\* Is what increment_click_count ended with caught before it reaches the
\* handler's except Exception?  ClientError is caught at line 39, anything
\* else at line 116.
IncrementCaught(outcome) == TRUE

\* The 301 response of lines 126-133.
Redirected(long_url) ==
  [Resp(301, "") EXCEPT !.Location = long_url, !.CacheControl = "no-cache"]

\* Is what log_redirect_analytics raises caught before it reaches the
\* handler's except Exception?  Line 121 stands in no try of its own.
EmitCaught == FALSE

\* Lines 113-141: increment_click_count, then log_redirect_analytics, which
\* returns or raises, then the response.
RedirectIncrement(p) ==
  /\ At(p, "redirect", "increment")
  /\ \E outcome \in StoreOutcomes, emit \in {"ok", "raise"} :
       LET c == inv[p].short_code
           result == IF outcome # "ok" THEN outcome
                     ELSE IF ConditionHolds(store, c) THEN "ok"
                     ELSE "ConditionalCheckFailed"
           called == [inv[p] EXCEPT !.n_upd = @ + 1, !.inc = result] IN
       /\ IF result = "ok"
            THEN /\ store' = update_item(store, c)
                 /\ okIncs' = [okIncs EXCEPT ![c] = @ + 1]
            ELSE UNCHANGED <<store, okIncs>>
       /\ Step(p, IF ~IncrementCaught(result)
                    THEN End(called, Resp(500, "Internal server error"))
                  ELSE IF emit = "raise" /\ ~EmitCaught
                    THEN End([called EXCEPT !.emit = emit],
                             Resp(500, "Internal server error"))
                  ELSE End([called EXCEPT !.emit = emit], Redirected(inv[p].long_url)))
  /\ UNCHANGED <<answered, writes>>

(* ----------------------------- get_analytics --------------------------- *)
\* Lines 47-64 of get_analytics.lambda_handler.
AnalyticsEarlyResponse(event) ==
  IF event.pathParameters = "null" THEN Resp(500, "Internal server error")
  ELSE IF event.pathParameters = "absent" \/ event.shortCode = << >>
    THEN Resp(400, "Short code is required")
  ELSE IF ~isalnum(event.shortCode) THEN Resp(400, "Invalid short code format")
  ELSE NoResp

\* A variant that reports the defaults of lines 34-35 for every item, to compare.
Stats_Defaults(short_code, item) ==
  [Resp(200, "") EXCEPT !.short_code = short_code,
                        !.original_url = item.long_url,
                        !.created_at = item.created_at]
\* The 200 response built from get_short_url_stats' result.
Stats(short_code, item) ==
  [Resp(200, "") EXCEPT !.short_code = short_code,
                        !.original_url = item.long_url,
                        !.created_at = item.created_at,
                        !.click_count = item.click_count,
                        !.is_active = item.is_active]

\* get_analytics.lambda_handler, whole: it calls the table once.
AnalyticsInvoke(p) ==
  /\ Arrives(p)
  /\ \E event \in {e \in PathEvents : e.headers = "object"} :
       LET early == AnalyticsEarlyResponse(event)
           begun == [Idle EXCEPT !.kind = "analytics", !.request = PathRequest(event)] IN
       IF early # NoResp
         THEN Step(p, End(begun, early))
         ELSE \E outcome \in StoreOutcomes :
           LET called == [begun EXCEPT !.short_code = event.shortCode, !.n_get = @ + 1]
               raised == [called EXCEPT !.failed = TRUE]
               item == get_item(store, event.shortCode) IN
           Step(p, CASE outcome = "ClientError" ->
                          End(raised, ServerError("Failed to retrieve URL statistics"))
                     [] outcome = "OtherError" ->
                          End(raised, ServerError("Internal server error"))
                     [] outcome = "ok" ->
                          IF item = << >>
                            THEN End(called, Resp(404, "Short URL not found"))
                            ELSE End([called EXCEPT !.item = item],
                                     Stats(event.shortCode, item[1])))
  /\ UNCHANGED <<store, answered, okIncs, writes>>

(* -------------------------------- system ------------------------------- *)
\* The response of the invocation that returned goes out to the caller.
Return ==
  /\ last # Idle
  /\ last' = Idle
  /\ UNCHANGED <<store, inv, answered, okIncs, writes>>

Next ==
  \/ \E p \in Procs :
       \/ CreateInvoke(p)
       \/ CreateCheck(p)
       \/ CreatePut(p)
       \/ RedirectInvoke(p)
       \/ RedirectIncrement(p)
       \/ AnalyticsInvoke(p)
  \/ Return

\* The three handlers over a table nobody else writes.
Spec == Init /\ [][Next]_vars

(* ------------------- the table's other writers ------------------------- *)
\* No handler clears is_active or deletes an item; redirect_url provides for
\* both (line 103, and the attribute_exists condition of line 37), which an
\* operator of the table does outside the handlers.
Deactivate(c) ==
  /\ last = Idle
  /\ c \in DOMAIN store /\ store[c].is_active
  /\ store' = [store EXCEPT ![c].is_active = FALSE]
  /\ UNCHANGED <<inv, last, answered, okIncs, writes>>

Delete(c) ==
  /\ last = Idle
  /\ c \in DOMAIN store
  /\ store' = [k \in DOMAIN store \ {c} |-> store[k]]
  /\ okIncs' = [okIncs EXCEPT ![c] = 0]
  /\ UNCHANGED <<inv, last, answered, writes>>

Operator == \E c \in Codes : Deactivate(c) \/ Delete(c)

\* The handlers over a table an operator edits too.
SpecOps == Init /\ [][Next \/ Operator]_vars

(* ------------------------------ properties ---------------------------- *)
\* The invocation that has just returned is of handler kind.
Returned(kind) == last.kind = kind /\ last.pc = "done"

IncrementFailures == {"ClientError", "OtherError", "ConditionalCheckFailed"}

\* C1: short codes are unique: no two Create invocations that answer 201
\* return the same short_code.
UniqueShortCodes == \A c \in Codes : Len(answered[c]) <= 1

\* C2: round trip: a Redirect on c that answers 301 carries as Location the
\* URL of every Create that had answered 201 with c before the Redirect began.
RoundTrip ==
  (Returned("redirect") /\ last.resp.statusCode = 301)
    => \A u \in last.seen : last.resp.Location = u

\* C3: record immutability: the long_url and created_at of an item of the
\* table never change, whatever step is taken.
RecordImmutable ==
  [][\A c \in DOMAIN store :
       c \in DOMAIN store' =>
         /\ store'[c].long_url = store[c].long_url
         /\ store'[c].created_at = store[c].created_at]_vars

\* C4: click_count is monotonic: the click_count of an item never decreases,
\* and changes only by the +1 of a Redirect's increment that succeeded.
ClickCountMonotonic ==
  [][\A c \in DOMAIN store :
       c \in DOMAIN store' =>
         \/ store'[c].click_count = store[c].click_count
         \/ /\ store'[c].click_count = store[c].click_count + 1
            /\ Returned("redirect")' /\ last'.short_code = c /\ last'.inc = "ok"]_vars

\* C5: no lost clicks: the click_count of an item is the number of Redirect
\* invocations on its code whose increment succeeded since the item was
\* written, however those invocations interleave.
NoLostClicks == \A c \in DOMAIN store : store[c].click_count = okIncs[c]

\* Two Redirects on one code overlapped: the one that returns last had read
\* the item before the other incremented it, and the count is 2.
NoLostClicksWitness ==
  /\ Returned("redirect") /\ last.inc = "ok"
  /\ last.item[1].click_count = 0
  /\ store[last.short_code].click_count = 2

EmissionIsolated ==
  (Returned("redirect") /\ last.emit = "raise")
    => /\ last.resp.statusCode = 301
       /\ last.resp.Location = last.item[1].long_url

\* C8: inactive codes are refused: a Redirect whose lookup returned an item
\* with is_active false answers 410, issues no increment, and leaves the
\* table as it was.
InactiveRefused ==
  [][(Returned("redirect")' /\ last'.item # << >> /\ ~last'.item[1].is_active)
       => /\ last'.resp.statusCode = 410
          /\ last'.n_upd = 0
          /\ store' = store]_vars

\* A Redirect has found an item with clicks on it inactive, and answered 410.
InactiveRefusedWitness ==
  /\ Returned("redirect") /\ last.resp.statusCode = 410
  /\ last.item[1].click_count > 0
  /\ store[last.short_code] = last.item[1]

\* The existence checks of the Create that has just returned all got an
\* answer from the table.
ChecksAnswered == Returned("create") /\ last.n_get = Len(last.checks) /\ last.n_get > 0

\* C9: retry exhaustion: a Create to which the table reported every
\* candidate as existing made exactly MAX_RETRIES checks, answers 500
\* 'Failed to generate unique short code', and wrote nothing.
RetryExhaustion ==
  (ChecksAnswered /\ \A i \in 1..Len(last.checks) : last.checks[i])
    => /\ Len(last.checks) = MAX_RETRIES
       /\ last.resp = Resp(500, "Failed to generate unique short code")
       /\ last.n_put = 0 /\ ~last.wrote

RetryExhaustionWitness ==
  /\ ChecksAnswered
  /\ last.checks = <<TRUE, TRUE, TRUE, TRUE, TRUE>>
  /\ last.resp.statusCode = 500

ReturnedOf(kinds) == last.kind \in kinds /\ last.pc = "done"

\* The request carries no short code, an empty one, or one that is not
\* alphanumeric.
MalformedCode(request) ==
  \/ request.pathParameters # "object"
  \/ request.shortCode = << >>
  \/ ~isalnum(request.shortCode)

\* C11: the format pre-filter precedes the store: a Redirect or Analytics
\* invocation whose short code is missing, empty or not alphanumeric answers
\* 400 and has called the table not once, neither to look up nor to increment.
FormatPreFilter ==
  (ReturnedOf({"redirect", "analytics"}) /\ MalformedCode(last.request))
    => /\ last.resp.statusCode = 400
       /\ last.n_get = 0 /\ last.n_upd = 0 /\ last.n_put = 0

\* The body of the request is no JSON, or holds no url, or holds a url that
\* fails validation.
BadCreateInput(request) ==
  \/ request.body # "object"
  \/ ~validate_url(request.url)[1]

\* C12: bad Create input is a client error: a Create invocation whose body
\* is no valid JSON, has no url, or has a url that fails validation answers
\* 400 and has neither read nor written the table.
BadInputIsClientError ==
  (Returned("create") /\ BadCreateInput(last.request))
    => /\ last.resp.statusCode = 400
       /\ last.n_get = 0 /\ last.n_put = 0

\* C13: Analytics is a pure read: the step in which an Analytics invocation
\* returns, whatever it answers, leaves the table as it was, and a 200
\* reports the click_count and is_active the table holds for the code at
\* that step, the invocation's one lookup.
AnalyticsPureRead ==
  [][Returned("analytics")' =>
       /\ store' = store
       /\ last'.n_put = 0 /\ last'.n_upd = 0 /\ last'.n_get <= 1
       /\ last'.resp.statusCode \in {200, 400, 404, 500}
       /\ last'.resp.statusCode = 200 =>
            /\ last'.short_code \in DOMAIN store
            /\ last'.resp.click_count = store[last'.short_code].click_count
            /\ last'.resp.is_active = store[last'.short_code].is_active]_vars

\* Analytics has reported an item that has been clicked and deactivated.
AnalyticsPureReadWitness ==
  /\ Returned("analytics") /\ last.resp.statusCode = 200
  /\ last.resp.click_count > 0 /\ ~last.resp.is_active
  /\ store[last.short_code] = last.item[1]

\* The step is one of an invocation of the handler kind.
Acts(kind) ==
  \E p \in Procs :
    /\ inv'[p] # inv[p]
    /\ kind \in {inv[p].kind, inv'[p].kind, last'.kind}

\* C14: record lifecycle: a step of a handler removes no code from the
\* table, and adds one only if it is a Create's; a step of Redirect or
\* Analytics leaves the set of codes as it is, also when the code to
\* increment has vanished; a step of Analytics changes nothing, and one of
\* Redirect nothing but the click_count of the code it was asked for.
RecordLifecycle ==
  [][/\ inv' # inv => DOMAIN store \subseteq DOMAIN store'
     /\ (inv' # inv /\ DOMAIN store' # DOMAIN store) => Acts("create")
     /\ (Acts("redirect") \/ Acts("analytics")) => DOMAIN store' = DOMAIN store
     /\ Acts("analytics") => store' = store
     /\ Acts("redirect") =>
          \A c \in DOMAIN store :
            store'[c] # store[c] =>
              /\ Returned("redirect")' /\ last'.short_code = c
              /\ store'[c] = [store[c] EXCEPT !.click_count = store'[c].click_count]]_vars

\* A Redirect has tried to increment a code that had vanished since its
\* lookup, while the table holds another code, and the code is still absent.
RecordLifecycleWitness ==
  /\ Returned("redirect") /\ last.inc = "ConditionalCheckFailed"
  /\ last.short_code \notin DOMAIN store
  /\ DOMAIN store # {}

\* The lookup of the Redirect that has just returned was answered.
LookedUp == Returned("redirect") /\ last.n_get = 1 /\ ~last.failed

\* C15: the outcome of a Redirect on a well-formed code: if the lookup
\* found no item the answer is 404 and no increment was issued; if it found
\* an active item the answer is 301 with Location that item's long_url, an
\* empty body and Cache-Control no-cache, and exactly one increment, of that
\* code, was attempted between the lookup and the response.
RedirectOutcome ==
  LookedUp =>
    /\ last.item = << >> =>
         /\ last.resp = Resp(404, "Short URL not found")
         /\ last.n_upd = 0
    /\ (last.item # << >> /\ last.item[1].is_active) =>
         /\ last.resp = Redirected(last.item[1].long_url)
         /\ last.resp.error = "" /\ last.resp.CacheControl = "no-cache"
         /\ last.n_upd = 1 /\ last.inc # "none"
         /\ last.item[1].short_code = last.short_code

\* The step in which a get_item or put_item of an invocation raises ends
\* the invocation with 500 and leaves the table as it was; the call that
\* raised was the invocation's last (a check that raised is followed by no
\* write, a write that raised was the only one).
StoreFailureEnds ==
  (ReturnedOf({"create", "redirect", "analytics"})' /\ last'.failed) =>
     /\ last'.resp.statusCode = 500
     /\ store' = store
     /\ last'.kind = "create" =>
          \/ last'.n_put = 0 /\ last'.n_get = Len(last'.checks) + 1
          \/ last'.n_put = 1 /\ last'.n_get = Len(last'.checks)
     /\ last'.kind \in {"redirect", "analytics"} =>
          last'.n_get = 1 /\ last'.item = << >>

\* An invocation that answers 500 has written nothing and incremented
\* nothing.
FailureLeavesNoTrace ==
  (ReturnedOf({"create", "redirect", "analytics"})' /\ last'.resp.statusCode = 500) =>
     ~last'.wrote /\ last'.inc # "ok"

\* C16: store failures become server errors without retry: a get_item or
\* put_item that raises ends the invocation with 500 and is not retried, no
\* invocation calls put_item more than once, a Create whose write raised has
\* written nothing, and no invocation that fails has modified the table.
StoreFailureIsServerError ==
  [][/\ ReturnedOf({"create", "redirect", "analytics"})' => last'.n_put <= 1
     /\ StoreFailureEnds
     /\ FailureLeavesNoTrace]_vars

\* C17: Creates that do not overlap never overwrite: when a Create's
\* put_item succeeds and no other Create has written since the existence
\* check that found its short code free, the code was absent from the table,
\* and the write leaves every item the table held as it was.
NonOverlappingCreateNeverOverwrites ==
  [][\A p \in Procs :
       (/\ inv[p].kind = "create" /\ inv[p].pc = "put"
        /\ Returned("create")' /\ last'.wrote /\ inv'[p] # inv[p]
        /\ inv[p].writes_seen = writes)
         => /\ inv[p].short_code \notin DOMAIN store
            /\ inv[p].short_code \in DOMAIN store'
            /\ \A c \in DOMAIN store : store'[c] = store[c]]_vars

\* A Create has written the second code of the table, which it found free on
\* its second check, and no other Create wrote between that check and the
\* write; the first code has kept its clicks.
NonOverlappingCreateWitness ==
  /\ Returned("create") /\ last.wrote
  /\ last.checks = <<TRUE, FALSE>>
  /\ writes = last.writes_seen + 1
  /\ \E c \in DOMAIN store \ {last.short_code} : store[c].click_count > 0

\* C18: the created_at a Create answers with its 201 is the created_at of
\* the item that invocation wrote, also when the clock has advanced between
\* the write and the building of the response.
CreatedAtIsRecordTimestamp ==
  (Returned("create") /\ last.resp.statusCode = 201)
    => /\ last.wrote
       /\ last.resp.created_at = last.written_at

====
